---- MODULE Spec2Model ----
(***************************************************************************)
(* Model of SeleniumBookScraper (src/SeleniumBookScraper.py): one call of  *)
(* run(start_page, end_page) on a freshly constructed scraper.  The        *)
(* program is single-threaded; pc is the position of the run.  Everything  *)
(* the browser, the parser and the filesystem decide is an input drawn     *)
(* when the code asks for it.                                              *)
(***************************************************************************)
EXTENDS Integers, Sequences, FiniteSets, TLC

\* ---------------------------------------------------------------- bounds
MaxPage == 2      \* largest page number a run may be asked for
MaxBlocks == 2    \* largest number of .product_pod blocks on a listing page

\* ------------------------------------------------------------ dictionaries
\* A Python dict is a function from its keys to values; the order of its
\* keys is the insertion order, which for every record the program builds is
\* the summary keys (lines 135-141) followed by the detail keys (lines 93-99).
SummaryKeys == <<"title", "price", "availability", "rating", "url">>
DetailKeys == <<"description", "upc", "product_type", "tax", "reviews">>
KeyOrder == SummaryKeys \o DetailKeys

Range(s) == {s[i] : i \in 1..Len(s)}

\* list(d.keys())
Keys(d) == SelectSeq(KeyOrder, LAMBDA k : k \in DOMAIN d)

\* dict.update: keys of b are added to a, a key present in both takes b's value
Update(a, b) == [k \in (DOMAIN a) \cup (DOMAIN b) |-> IF k \in DOMAIN b THEN b[k] ELSE a[k]]

\* ------------------------------------------------------------ price text
Digits == <<"0", "1", "2", "3", "4", "5", "6", "7", "8", "9">>

DigitValue(c) == (CHOOSE i \in 1..10 : Digits[i] = c) - 1

\* raw_price.replace('£', '').replace('Â', '')
StripCurrency(raw) == SelectSeq(raw, LAMBDA c : c \notin {"£", "Â"})

\* float(text) raises ValueError unless the text is a number
IsNumber(text) == Len(text) >= 1 /\ \A i \in 1..Len(text) : text[i] \in Range(Digits)

RECURSIVE NumberValue(_)
NumberValue(text) ==
    IF text = <<>> THEN 0
    ELSE 10 * NumberValue(SubSeq(text, 1, Len(text) - 1)) + DigitValue(text[Len(text)])

\* the price texts a block may carry: clean, with the mis-decoded artifact,
\* and one that is no number
RawPrices == {<<"£", "5">>, <<"Â", "£", "5">>, <<"£", "x">>}

\* the .product_pod blocks a listing page may hold
Blocks == [raw_price : RawPrices]

\* what a visit of a detail page may give: the fields, a page without the
\* product_page container, or an exception
DetailOutcomes == {"ok", "nocontainer", "error"}

RECURSIVE SeqsUpTo(_, _)
SeqsUpTo(S, n) ==
    IF n = 0 THEN {<<>>}
    ELSE LET shorter == SeqsUpTo(S, n - 1)
         IN shorter \cup {Append(s, x) : s \in {t \in shorter : Len(t) = n - 1}, x \in S}

\* ------------------------------------------------------------------ files
\* a file is absent, or holds content; the tabular file's content is a header
\* and rows, the structured file's content is the dumped list
NoCsv == [exists |-> FALSE, header |-> <<>>, rows |-> <<>>]
OldCsv == [exists |-> TRUE, header |-> <<"title">>, rows |-> << <<99>> >>]
NoJson == [exists |-> FALSE, content |-> <<>>]
OldJson == [exists |-> TRUE, content |-> << [title |-> 99] >>]

VARIABLES
    pc,            \* position of run()
    start_page, end_page,
    page_num,      \* loop variable of scrape_multiple_pages
    books,         \* soup.select(".product_pod") of the page being scraped
    idx,           \* position of the for loop of scrape_page in books
    all_books,     \* self.all_books
    csvFile, jsonFile,
    csvStatus, jsonStatus,   \* how each writer ended
    csvArg, jsonArg,         \* self.all_books as each writer saw it
    attempted,     \* page numbers whose listing page was navigated to
    stopAt,        \* page number for which scrape_page returned False, else 0
    stopBooks,     \* self.all_books when scrape_page returned False
    pageBase,      \* len(self.all_books) when the current page was entered
    lastDetail,    \* what the last call of scrape_book_details met, else "none"
    navs,          \* driver.get calls so far
    csvCalls, jsonCalls, quitCalls,
    scrapeRaised,  \* an exception left scrape_multiple_pages
    summaryLogged  \* the "Scraping complete" line was logged

vars == <<pc, start_page, end_page, page_num, books, idx, all_books, csvFile, jsonFile,
          csvStatus, jsonStatus, csvArg, jsonArg, attempted, stopAt, stopBooks, pageBase,
          lastDetail, navs, csvCalls, jsonCalls, quitCalls, scrapeRaised, summaryLogged>>

\* lines 28-49 and the entry of run (187-193)
Init ==
    /\ pc = "loop"
    /\ start_page \in 1..MaxPage
    /\ end_page \in 1..MaxPage
    /\ page_num = start_page
    /\ books = <<>>
    /\ idx = 1
    /\ all_books = <<>>
    /\ \E old \in BOOLEAN :
         /\ csvFile = IF old THEN OldCsv ELSE NoCsv
         /\ jsonFile = IF old THEN OldJson ELSE NoJson
    /\ csvStatus = "notcalled"
    /\ jsonStatus = "notcalled"
    /\ csvArg = <<>>
    /\ jsonArg = <<>>
    /\ attempted = {}
    /\ stopAt = 0
    /\ stopBooks = <<>>
    /\ pageBase = 0
    /\ lastDetail = "none"
    /\ navs = 0
    /\ csvCalls = 0
    /\ jsonCalls = 0
    /\ quitCalls = 0
    /\ scrapeRaised = FALSE
    /\ summaryLogged = FALSE


\* ------------------------------------------------------- pure operations
\* csv.DictWriter's restval: the cell written for a key the record lacks
Restval == 0

\* the summary dict of lines 135-141 for the block at position i of page p;
\* title and url stand for the block's own attribute values
SummaryOf(block, p, i) ==
    [title |-> 10 * p + i,
     price |-> NumberValue(StripCurrency(block.raw_price)),
     availability |-> 1,
     rating |-> 3,
     url |-> 100 + 10 * p + i]

\* scrape_book_details (71-104): the dict of lines 93-99, or None when the
\* container is absent (84-85) or anything raised (100-102)
ScrapeBookDetails(outcome, p, i) ==
    IF outcome = "ok"
    THEN [some |-> TRUE,
          fields |-> [description |-> 1, upc |-> 200 + 10 * p + i, product_type |-> 2,
                      tax |-> 4, reviews |-> 5]]
    ELSE [some |-> FALSE]

BookDataPlaceholders(summary, details) ==
    Update(summary, [k \in Range(DetailKeys) |->
                        IF details.some THEN details.fields[k] ELSE Restval])

\* lines 135-144: book_data, updated with the details when there are any
BookData(summary, details) ==
    IF details.some THEN Update(summary, details.fields) ELSE summary

AppendBookFront(list, book_data) == <<book_data>> \o list

\* line 146: self.all_books.append(book_data)
AppendBook(list, book_data) == Append(list, book_data)

AfterBadBlockBreak(i, n) == n + 1

\* lines 148-150: a block that raised is logged and the loop continues with
\* the next one (i: position of the block, n: number of blocks)
AfterBadBlock(i, n) == i + 1

\* lines 157-158 and 193-194: scrape_page(n) returned False, the loop breaks
\* and run goes on to the writers
OnPageFalse(n) == [pc |-> "csv", page_num |-> n]

OnScrapeExceptionReturn == "done"

\* lines 196-199: an exception out of scrape_multiple_pages is logged by the
\* except clause and run goes on to the finally clause
OnScrapeException == "quit"

\* csv.DictWriter._dict_to_list: the cells of one record under fieldnames
Row(rec, fieldnames) ==
    [j \in 1..Len(fieldnames) |->
        IF fieldnames[j] \in DOMAIN rec THEN rec[fieldnames[j]] ELSE Restval]

\* csv.DictWriter (extrasaction='raise'): a record with a key outside
\* fieldnames raises ValueError
HasExtraKeys(rec, fieldnames) == \E k \in DOMAIN rec : k \notin Range(fieldnames)

\* number of records writerows writes before one raises
RowsWritten(recs, fieldnames) ==
    IF \E i \in 1..Len(recs) : HasExtraKeys(recs[i], fieldnames)
    THEN (CHOOSE i \in 1..Len(recs) :
             /\ HasExtraKeys(recs[i], fieldnames)
             /\ \A j \in 1..(i - 1) : ~HasExtraKeys(recs[j], fieldnames)) - 1
    ELSE Len(recs)

\* lines 164-172 once open() succeeded: the file is truncated by open; with
\* records, the header and the rows up to the first one that raises are written
CsvWritten(recs) ==
    IF recs = <<>>
    THEN [exists |-> TRUE, header |-> <<>>, rows |-> <<>>]
    ELSE LET fieldnames == Keys(recs[1])
         IN [exists |-> TRUE,
             header |-> fieldnames,
             rows |-> [i \in 1..RowsWritten(recs, fieldnames) |-> Row(recs[i], fieldnames)]]

\* how save_to_csv ends once open() succeeded: the warning of 165-167, the
\* info line of 173, or the except clause of 174-175
CsvResult(recs) ==
    IF recs = <<>> THEN "empty"
    ELSE IF RowsWritten(recs, Keys(recs[1])) < Len(recs) THEN "valueerror"
    ELSE "saved"

\* lines 181-182: json.dump of the whole list
JsonWritten(recs) == [exists |-> TRUE, content |-> recs]

\* ----------------------------------------------------------------- actions
writerState == <<csvFile, jsonFile, csvStatus, jsonStatus, csvArg, jsonArg,
                     csvCalls, jsonCalls, quitCalls, summaryLogged>>

\* scrape_page, lines 108-113: get_page navigated and returned None
ScrapePageFetchFail ==
    /\ pc = "loop" /\ page_num <= end_page
    /\ navs' = navs + 1
    /\ attempted' = attempted \cup {page_num}
    /\ stopAt' = page_num
    /\ stopBooks' = all_books
    /\ pc' = OnPageFalse(page_num).pc
    /\ page_num' = OnPageFalse(page_num).page_num
    /\ UNCHANGED <<start_page, end_page, books, idx, all_books, pageBase, lastDetail,
                   scrapeRaised>>
    /\ UNCHANGED writerState

\* scrape_page, lines 115-116: the parse of the page source raised; nothing
\* in scrape_page or scrape_multiple_pages catches it
ScrapePageParseError ==
    /\ pc = "loop" /\ page_num <= end_page
    /\ navs' = navs + 1
    /\ attempted' = attempted \cup {page_num}
    /\ scrapeRaised' = TRUE
    /\ pc' = OnScrapeException
    /\ UNCHANGED <<start_page, end_page, page_num, books, idx, all_books, pageBase,
                   lastDetail, stopAt, stopBooks>>
    /\ UNCHANGED writerState

\* scrape_page, lines 116-120: the page source holds no .product_pod
ScrapePageNoBooks ==
    /\ pc = "loop" /\ page_num <= end_page
    /\ navs' = navs + 1
    /\ attempted' = attempted \cup {page_num}
    /\ books' = <<>>
    /\ stopAt' = page_num
    /\ stopBooks' = all_books
    /\ pc' = OnPageFalse(page_num).pc
    /\ page_num' = OnPageFalse(page_num).page_num
    /\ UNCHANGED <<start_page, end_page, idx, all_books, pageBase, lastDetail, scrapeRaised>>
    /\ UNCHANGED writerState

\* scrape_page, lines 108-122: the page was fetched and holds blocks
ScrapePageBooks ==
    /\ pc = "loop" /\ page_num <= end_page
    /\ navs' = navs + 1
    /\ attempted' = attempted \cup {page_num}
    /\ books' \in SeqsUpTo(Blocks, MaxBlocks) \ {<<>>}
    /\ idx' = 1
    /\ pageBase' = Len(all_books)
    /\ pc' = "item"
    /\ UNCHANGED <<start_page, end_page, page_num, all_books, stopAt, stopBooks, lastDetail,
                   scrapeRaised>>
    /\ UNCHANGED writerState

\* one iteration of the for loop, lines 122-150
ProcessBook ==
    /\ pc = "item" /\ idx <= Len(books)
    /\ LET block == books[idx]
           text == StripCurrency(block.raw_price)
       IN IF IsNumber(text)
          THEN /\ navs' = navs + 1
               /\ \E outcome \in DetailOutcomes :
                    /\ lastDetail' = outcome
                    /\ all_books' = AppendBook(all_books,
                                       BookData(SummaryOf(block, page_num, idx),
                                                ScrapeBookDetails(outcome, page_num, idx)))
               /\ idx' = idx + 1
          ELSE /\ idx' = AfterBadBlock(idx, Len(books))
               /\ UNCHANGED <<navs, all_books, lastDetail>>
    /\ UNCHANGED <<pc, start_page, end_page, page_num, books, attempted, stopAt, stopBooks,
                   pageBase, scrapeRaised>>
    /\ UNCHANGED writerState

\* line 152 and the next iteration of line 156; the locals of scrape_page
\* are gone
EndPage ==
    /\ pc = "item" /\ idx > Len(books)
    /\ pc' = "loop"
    /\ page_num' = page_num + 1
    /\ books' = <<>>
    /\ idx' = 1
    /\ lastDetail' = "none"
    /\ UNCHANGED <<start_page, end_page, all_books, attempted, stopAt, stopBooks,
                   pageBase, navs, scrapeRaised>>
    /\ UNCHANGED writerState

\* line 156: the range is exhausted; run goes on to line 194
RangeDone ==
    /\ pc = "loop" /\ page_num > end_page
    /\ pc' = "csv"
    /\ UNCHANGED <<start_page, end_page, page_num, books, idx, all_books, attempted, stopAt,
                   stopBooks, pageBase, lastDetail, navs, scrapeRaised>>
    /\ UNCHANGED writerState

scrapeState == <<start_page, end_page, page_num, books, idx, all_books, attempted, stopAt,
                 stopBooks, pageBase, lastDetail, navs, scrapeRaised>>

\* save_to_csv, lines 160-175, open() succeeding
SaveCsv ==
    /\ pc = "csv"
    /\ csvCalls' = csvCalls + 1
    /\ csvArg' = all_books
    /\ csvFile' = CsvWritten(all_books)
    /\ csvStatus' = CsvResult(all_books)
    /\ pc' = "json"
    /\ UNCHANGED scrapeState
    /\ UNCHANGED <<jsonFile, jsonStatus, jsonArg, jsonCalls, quitCalls, summaryLogged>>

\* save_to_csv, lines 164 and 174-175: open() raised OSError
SaveCsvOSError ==
    /\ pc = "csv"
    /\ csvCalls' = csvCalls + 1
    /\ csvArg' = all_books
    /\ csvStatus' = "oserror"
    /\ pc' = "json"
    /\ UNCHANGED scrapeState
    /\ UNCHANGED <<csvFile, jsonFile, jsonStatus, jsonArg, jsonCalls, quitCalls, summaryLogged>>

\* save_to_json, lines 177-185, open() succeeding
SaveJson ==
    /\ pc = "json"
    /\ jsonCalls' = jsonCalls + 1
    /\ jsonArg' = all_books
    /\ jsonFile' = JsonWritten(all_books)
    /\ jsonStatus' = "saved"
    /\ pc' = "quit"
    /\ UNCHANGED scrapeState
    /\ UNCHANGED <<csvFile, csvStatus, csvArg, csvCalls, quitCalls, summaryLogged>>

\* save_to_json, lines 181 and 184-185: open() raised OSError
SaveJsonOSError ==
    /\ pc = "json"
    /\ jsonCalls' = jsonCalls + 1
    /\ jsonArg' = all_books
    /\ jsonStatus' = "oserror"
    /\ pc' = "quit"
    /\ UNCHANGED scrapeState
    /\ UNCHANGED <<csvFile, jsonFile, csvStatus, csvArg, csvCalls, quitCalls, summaryLogged>>

\* lines 198-202: driver.quit() returns and the summary is logged
Quit ==
    /\ pc = "quit"
    /\ quitCalls' = quitCalls + 1
    /\ summaryLogged' = TRUE
    /\ pc' = "done"
    /\ UNCHANGED scrapeState
    /\ UNCHANGED <<csvFile, jsonFile, csvStatus, jsonStatus, csvArg, jsonArg, csvCalls, jsonCalls>>

\* lines 198-199: driver.quit() raises inside the finally clause; the
\* exception leaves run and lines 201-202 are not reached
QuitRaises ==
    /\ pc = "quit"
    /\ quitCalls' = quitCalls + 1
    /\ pc' = "raised"
    /\ UNCHANGED scrapeState
    /\ UNCHANGED <<csvFile, jsonFile, csvStatus, jsonStatus, csvArg, jsonArg, csvCalls, jsonCalls,
                   summaryLogged>>

Next ==
    \/ ScrapePageFetchFail
    \/ ScrapePageParseError
    \/ ScrapePageNoBooks
    \/ ScrapePageBooks
    \/ ProcessBook
    \/ EndPage
    \/ RangeDone
    \/ SaveCsv
    \/ SaveCsvOSError
    \/ SaveJson
    \/ SaveJsonOSError
    \/ Quit
    \/ QuitRaises

Spec == Init /\ [][Next]_vars

\* run has ended: returned normally, or an exception left it
Ended == pc \in {"done", "raised"}


\* ------------------------------------------------------------ properties
IsPrefix(s, t) == Len(s) <= Len(t) /\ \A i \in 1..Len(s) : s[i] = t[i]

\* a block whose price text is no number after the stripping of line 126
Unparseable(block) == ~IsNumber(StripCurrency(block.raw_price))

\* the positions, in order, of the parseable blocks among the first n of bs
GoodPositions(bs, n) == SelectSeq([i \in 1..n |-> i], LAMBDA i : ~Unparseable(bs[i]))

\* the tabular file the header-of-the-first-record policy describes: the
\* first record's keys, then one row per record, keys outside the header dropped
FirstRecordTable(recs) ==
    [exists |-> TRUE,
     header |-> Keys(recs[1]),
     rows |-> [i \in 1..Len(recs) |-> Row(recs[i], Keys(recs[1]))]]

WriterIOFailed == csvStatus = "oserror" \/ jsonStatus = "oserror"

\* C1 (as claimed): when scrape_page returned False for page N, no page
\* greater than N is navigated to, and once the run has ended the records
\* collected before N are in both output files (the filesystem permitting).
C1_EarlyStopPersists ==
    stopAt # 0 =>
        /\ \A p \in attempted : p <= stopAt
        /\ (Ended /\ ~WriterIOFailed) =>
              /\ jsonFile = JsonWritten(stopBooks)
              /\ stopBooks # <<>> => csvFile = FirstRecordTable(stopBooks)

\* the part of C1 the code keeps: no later page is attempted, both writers
\* run on exactly the records collected before N, and the structured file
\* holds them all whenever its open() succeeded
EarlyStopHandsOver ==
    stopAt # 0 =>
        /\ \A p \in attempted : p <= stopAt
        /\ \A i \in 1..Len(stopBooks) : stopBooks[i].title < 10 * stopAt
        /\ Ended =>
              /\ csvCalls = 1 /\ jsonCalls = 1
              /\ csvArg = stopBooks /\ jsonArg = stopBooks
              /\ jsonStatus = "saved" => jsonFile = JsonWritten(stopBooks)

\* C2 (as claimed): when an exception left the scraping of a page, both
\* writers are still invoked with the records collected so far and the
\* browser session is still released.
C2_CleanupAfterError ==
    (Ended /\ scrapeRaised) =>
        /\ csvCalls = 1 /\ csvArg = all_books
        /\ jsonCalls = 1 /\ jsonArg = all_books
        /\ quitCalls = 1

\* C3: in every run driver.quit() is called exactly once, whatever scraping
\* and the writers did, and after it there is no navigation and no writer
\* call or file write.
C3_ReleasedOnceLast ==
    /\ [](quitCalls <= 1)
    /\ [](Ended => quitCalls = 1)
    /\ [](quitCalls = 0 => ~Ended)
    /\ [][quitCalls >= 1 =>
            /\ navs' = navs
            /\ csvCalls' = csvCalls /\ jsonCalls' = jsonCalls
            /\ csvFile' = csvFile /\ jsonFile' = jsonFile
            /\ quitCalls' = quitCalls]_vars

C3_Witness ==
    /\ Ended /\ quitCalls = 1
    /\ scrapeRaised = FALSE
    /\ navs >= 3
    /\ csvCalls = 1 /\ jsonCalls = 1
    /\ csvStatus = "oserror"

\* a run that an exception out of scraping took to the finally clause: the
\* session is released there too
ReleasedAfterScrapeError == Ended /\ scrapeRaised /\ quitCalls = 1 /\ navs >= 2

\* C4 (as claimed): a writer that failed does not keep the other writer from
\* being called, its failure does not leave the writer, and the run still
\* reaches its summary line.
C4_WritersBestEffort ==
    /\ (pc \in {"quit", "done", "raised"} /\ ~scrapeRaised) => (csvCalls = 1 /\ jsonCalls = 1)
    /\ (Ended /\ (csvStatus \in {"oserror", "valueerror"} \/ jsonStatus = "oserror")) =>
          summaryLogged

\* the part of C4 the code keeps: whatever way a writer ends, the run goes
\* on to the next writer and then to the release
WriterFailureIsContained ==
    /\ [][pc = "csv" => (pc' = "json" /\ csvCalls' = csvCalls + 1)]_vars
    /\ [][pc = "json" => (pc' = "quit" /\ jsonCalls' = jsonCalls + 1)]_vars
    /\ [][pc' = "raised" => pc = "quit"]_vars

\* C5 (as claimed): no failure of any step leaves run as an exception.
C5_RunNeverRaises == pc # "raised"

\* C6: on a page that was fetched with at least one block, the records
\* appended so far are those of the parseable blocks among the blocks
\* processed so far, in page order; once the loop is over their number is
\* the number of blocks minus the number of unparseable ones.
C6_RecordsPerPage ==
    pc = "item" =>
        LET n == Len(books)
            processed == IF idx > n THEN n ELSE idx - 1
            good == GoodPositions(books, processed)
            added == SubSeq(all_books, pageBase + 1, Len(all_books))
        IN /\ idx <= n + 1
           /\ Len(added) = Len(good)
           /\ \A k \in 1..Len(good) : added[k].title = 10 * page_num + good[k]
           /\ idx > n =>
                 Len(all_books) - pageBase =
                     n - Cardinality({i \in 1..n : Unparseable(books[i])})

C6_Witness ==
    /\ pc = "item" /\ Len(books) = 2 /\ idx > Len(books)
    /\ Unparseable(books[1]) /\ ~Unparseable(books[2])
    /\ pageBase >= 1
    /\ Len(all_books) = pageBase + 1
    /\ all_books[Len(all_books)].title = 10 * page_num + 2

\* C7 (as claimed): for a non-empty result set, whatever the key sets of its
\* records, the tabular writer leaves the first record's keys as the header
\* and one row per record, in order (the filesystem permitting).
C7_OneRowPerRecord ==
    (csvCalls = 1 /\ csvStatus # "oserror" /\ csvArg # <<>>) =>
        csvFile = FirstRecordTable(csvArg)

\* C8: a parseable block is appended as one record that carries the five
\* summary fields with the values extracted from the block; the record has
\* no other key when the detail visit gave nothing, and has the five detail
\* fields with the values of the detail page when it succeeded.
C8_DetailsOptional ==
    [][(pc = "item" /\ idx <= Len(books) /\ ~Unparseable(books[idx])) =>
          /\ Len(all_books') = Len(all_books) + 1
          /\ LET r == all_books'[Len(all_books')]
                 summary == SummaryOf(books[idx], page_num, idx)
                 fields == ScrapeBookDetails("ok", page_num, idx).fields
             IN /\ \A k \in Range(SummaryKeys) : k \in DOMAIN r /\ r[k] = summary[k]
                /\ lastDetail' \in DetailOutcomes
                /\ lastDetail' # "ok" => DOMAIN r = Range(SummaryKeys)
                /\ lastDetail' = "ok" =>
                      /\ DOMAIN r = Range(KeyOrder)
                      /\ \A k \in Range(DetailKeys) : r[k] = fields[k]]_vars

C8_Witness ==
    /\ Len(all_books) >= 2
    /\ lastDetail \in {"nocontainer", "error"}
    /\ DOMAIN all_books[Len(all_books)] = Range(SummaryKeys)
    /\ DOMAIN all_books[1] = Range(KeyOrder)

\* C9: the result set only grows at its end: at every step of a run the
\* list before the step is a prefix of the list after it.
C9_AppendOnly == [][IsPrefix(all_books, all_books')]_vars

C9_Witness ==
    /\ Ended
    /\ Len(all_books) >= 2
    /\ stopAt # 0
    /\ csvCalls = 1 /\ jsonCalls = 1
    /\ all_books = jsonArg

\* C10 (as claimed): with an empty result set the tabular writer leaves the
\* tabular file as it was, and the structured writer writes an empty list.
C10_EmptyWritesNothing ==
    /\ [][(pc = "csv" /\ all_books = <<>>) => csvFile' = csvFile]_vars
    /\ [][(pc = "json" /\ all_books = <<>> /\ jsonStatus' = "saved") =>
             jsonFile' = [exists |-> TRUE, content |-> <<>>]]_vars

====
